---- MODULE Spec2Model ----
(***************************************************************************)
(* Model of the Salesforce Bulk API 2.0 client of custom_simple_salesforce *)
(* (bulk.py: SfBulk, bulk_job.py: SfBulkJobQuery / SfBulkJob).             *)
(*                                                                         *)
(* One caller drives one SfBulk client against a server.  Every blocking   *)
(* call is one action; the poll loops are split at the points where the    *)
(* caller waits (the status request, the sleep), so that the server can    *)
(* move between two polls.                                                 *)
(*                                                                         *)
(* Python values: None is the empty tuple, an optional value v is <<v>>;   *)
(* a dict is a function on the set of its keys; a str that is parsed or    *)
(* decoded is a tuple of one-character strings.                            *)
(***************************************************************************)
EXTENDS Integers, Sequences, FiniteSets, TLC

VARIABLES sfBulk, server, handles, pc, cur

vars == <<sfBulk, server, handles, pc, cur>>

(***************************************************************************)
(* Bounds                                                                  *)
(***************************************************************************)
\* number of job ids the server hands out
MaxJobs == 2
\* number of status calls one wait may make before the model stops following it
MaxPolls == 3
\* number of handle objects the model keeps track of
MaxHandles == 2
\* length of the CSV payloads of the decoder specification
MaxCsvLen == 6

(***************************************************************************)
(* Python values                                                           *)
(***************************************************************************)
None == <<>>
Some(v) == <<v>>

\* dict.get(key, default)
DictGet(d, key, default) == IF key \in DOMAIN d THEN d[key] ELSE default

\* dict.update: the entries of upd replace or extend those of d
DictUpdate(d, upd) ==
    [k \in (DOMAIN d) \cup (DOMAIN upd) |-> IF k \in DOMAIN upd THEN upd[k] ELSE d[k]]

\* d without the key k
DictDel(d, k) == [x \in (DOMAIN d) \ {k} |-> d[x]]

EmptyDict == [k \in {} |-> None]

(***************************************************************************)
(* The client object: SfBulk.__init__                                      *)
(***************************************************************************)
DefaultInterval == 5
DefaultTimeout == 30

\* the interval argument of the constructor (None: not passed)
IntervalArgs == {None, Some(2)}

SfHeaders == ("Authorization" :> "Bearer tok") @@ ("Content-Type" :> "application/json")

SfBulkInit(intervalArg) ==
    [bulk2_url |-> "https://sf/jobs/",
     headers   |-> SfHeaders,
     _interval |-> IF intervalArg = None THEN DefaultInterval ELSE intervalArg[1],
     _timeout  |-> DefaultTimeout]

\* the attributes and methods an SfBulk instance has
SfBulkAttrs ==
    {"bulk2_url", "headers", "_interval", "_timeout",
     "_make_request", "_get_csv_results", "_get_final_interval",
     "create_job_query", "get_job_query_info", "poll_job_query",
     "get_job_query_results",
     "create_job_insert", "create_job_update", "create_job_upsert",
     "create_job_delete", "create_job_hard_delete", "create_job",
     "upload_job_data", "uploaded_job", "get_job_info", "poll_job",
     "get_ingest_successful_results", "get_ingest_failed_results",
     "get_ingest_unprocessed_records"}

\* attribute lookup on an object with the attributes attrs
HasAttr(attrs, name) == name \in attrs

(***************************************************************************)
(* The server                                                              *)
(***************************************************************************)
IdOrder == <<"j1", "j2", "j3">>
JobIds == {IdOrder[i] : i \in 1..MaxJobs}

NoJob == [family |-> "none", state |-> "", nrf |-> None]

\* numberRecordsFailed as the server may report it: an int, a str
NrfInt(n) == [t |-> "int", n |-> n, s |-> <<>>]
NrfStr(s) == [t |-> "str", n |-> 0, s |-> s]
NrfValues == {Some(NrfInt(0)), Some(NrfInt(2)), Some(NrfStr(<<"x">>))}

FreeIds == {i \in 1..MaxJobs : server[IdOrder[i]].family = "none"}
NextId == IdOrder[CHOOSE i \in FreeIds : \A k \in FreeIds : i <= k]

\* the status snapshot of job j
Snapshot(j) ==
    LET base == [id |-> j, state |-> server[j].state]
    IN  IF server[j].nrf = None THEN base
        ELSE DictUpdate(base, [numberRecordsFailed |-> server[j].nrf[1]])

HttpError == [ok |-> FALSE, json |-> EmptyDict, text |-> <<>>]
Ok(js, txt) == [ok |-> TRUE, json |-> js, text |-> txt]

JobAt(e, family) ==
    /\ e[1] = family
    /\ e[2] \in JobIds
    /\ server[e[2]].family = family

ServerTerminal == {"JobComplete", "Failed", "Aborted"}

\* What the server may answer to the request req, and the state it is in
\* afterwards.  Every request may fail (a non-2xx answer); a well-formed
\* request for an existing job may succeed.  payloads: the result bodies.
Serve(req, payloads) ==
    LET m == req.method
        e == req.endpoint
    IN  {[resp |-> HttpError, srv |-> server]} \cup
        (IF m = "POST" /\ Len(e) = 1 /\ e[1] \in {"query", "ingest"}
         THEN IF FreeIds = {} THEN {}
              ELSE LET j == NextId
                       st == IF e[1] = "query" THEN "UploadComplete" ELSE "Open"
                       job == [family |-> e[1], state |-> st, nrf |-> None]
                   IN  {[resp |-> Ok([id |-> j, state |-> st], <<>>),
                         srv |-> [server EXCEPT ![j] = job]],
                        [resp |-> Ok([state |-> st], <<>>), srv |-> server]}
         ELSE IF m = "GET" /\ Len(e) = 2 /\ JobAt(e, e[1])
         THEN {[resp |-> Ok(js, <<>>), srv |-> server] :
                   js \in {Snapshot(e[2]), DictDel(Snapshot(e[2]), "state")}}
         ELSE IF m = "GET" /\ Len(e) = 3
                 /\ (\/ JobAt(e, "query") /\ e[3] = "results"
                     \/ JobAt(e, "ingest") /\ e[3] \in {"successfulResults",
                                "failedResults", "unprocessedrecords"})
                 /\ server[e[2]].state \in ServerTerminal
         THEN {[resp |-> Ok(EmptyDict, t), srv |-> server] : t \in payloads}
         ELSE IF m = "PUT" /\ Len(e) = 3 /\ JobAt(e, "ingest") /\ e[3] = "batches"
                 /\ server[e[2]].state = "Open"
                 /\ req.headers["Content-Type"] = "text/csv"
         THEN {[resp |-> Ok(EmptyDict, <<>>), srv |-> server]}
         ELSE IF m = "PATCH" /\ Len(e) = 2 /\ JobAt(e, "ingest")
                 /\ server[e[2]].state = "Open"
                 /\ req.json = [state |-> "UploadComplete"]
         THEN {[resp |-> Ok(Snapshot(e[2]), <<>>),
                srv |-> [server EXCEPT ![e[2]].state = "UploadComplete"]]}
         ELSE {})

(***************************************************************************)
(* SfBulk._make_request                                                    *)
(***************************************************************************)
\* the request _make_request sends: the client's headers are copied and the
\* per-call headers laid over the copy
MakeRequest(method, endpoint, headers, json, data) ==
    [method   |-> method,
     base     |-> sfBulk.bulk2_url,
     endpoint |-> endpoint,
     headers  |-> IF headers = None \/ headers = Some(EmptyDict) THEN sfBulk.headers
                  ELSE DictUpdate(sfBulk.headers, headers[1]),
     timeout  |-> sfBulk._timeout,
     json     |-> json,
     data     |-> data]

\* (the per-call headers laid over the client's own dict, not over a copy)
final_headers_NoCopy(headers) ==
    IF headers = None \/ headers = Some(EmptyDict) THEN sfBulk.headers
    ELSE DictUpdate(sfBulk.headers, headers[1])

\* self.headers once _make_request has built final_headers: final_headers is
\* a deep copy, so that the update leaves self.headers as it was
final_headers_self(headers) == sfBulk.headers

\* what _make_request(method, endpoint, headers, ...) does to the client
Requested(headers) ==
    sfBulk' = [sfBulk EXCEPT !.headers = final_headers_self(headers)]

\* (_make_request without the status check)
raise_for_status_Skipped(resp) == FALSE

\* _response.raise_for_status(): TRUE when it raises HTTPError
raise_for_status(resp) == ~resp.ok

(***************************************************************************)
(* The caller's current (or last) call                                     *)
(***************************************************************************)
RetNone == [t |-> "none"]
RetDict(d) == [t |-> "dict", v |-> d]
RetHandle(h) == [t |-> "handle", v |-> h]
RetBool(b) == [t |-> "bool", v |-> b]

NoArgs == EmptyDict

Call(op, args, reqs, trace, outcome, err, ret) ==
    [op |-> op, args |-> args, reqs |-> reqs, trace |-> trace,
     outcome |-> outcome, err |-> err, ret |-> ret]

Returned(op, args, reqs, ret) == Call(op, args, reqs, <<>>, "returned", "", ret)
Raised(op, args, reqs, err) == Call(op, args, reqs, <<>>, "raised", err, RetNone)

\* the response a call that sends one request has got
ResponseEv(resp) == [k |-> "response", resp |-> resp]

NoCall == Call("", NoArgs, <<>>, <<>>, "none", "", RetNone)

Init ==
    /\ \E a \in IntervalArgs : sfBulk = SfBulkInit(a)
    /\ server = [j \in JobIds |-> NoJob]
    /\ handles = <<>>
    /\ pc = "idle"
    /\ cur = NoCall

(***************************************************************************)
(* bulk_job.py: _SfBulkJobBase.__init__                                    *)
(***************************************************************************)
\* (a constructor that keeps the id alone of job_info)
NewHandle_IdOnly(cls, job_info) ==
    [cls |-> cls, id |-> job_info["id"], _info |-> [id |-> job_info["id"]]]

\* the handle object the constructor builds from job_info
NewHandle(cls, job_info) == [cls |-> cls, id |-> job_info["id"], _info |-> job_info]

\* (_info kept on the class: the handles share one cache)
Construct_SharedInfo(op, args, reqs, trace, cls, job_info) ==
    IF "id" \notin DOMAIN job_info
    THEN /\ cur' = [Raised(op, args, reqs, "KeyError") EXCEPT !.trace = trace]
         /\ UNCHANGED handles
    ELSE /\ handles' = Append([h \in 1..Len(handles) |->
                                  [handles[h] EXCEPT !._info = job_info]],
                              NewHandle(cls, job_info))
         /\ cur' = [Returned(op, args, reqs, RetHandle(Len(handles) + 1))
                        EXCEPT !.trace = trace]

\* (a constructor reading the id with job_info.get("id", ""))
Construct_NoIdCheck(op, args, reqs, trace, cls, job_info) ==
    /\ handles' = Append(handles, [cls |-> cls, id |-> DictGet(job_info, "id", ""),
                                    _info |-> job_info])
    /\ cur' = [Returned(op, args, reqs, RetHandle(Len(handles) + 1))
                   EXCEPT !.trace = trace]

\* SfBulkJob(self, response.json()) / SfBulkJobQuery(self, response.json())
\* at the end of a call that has sent reqs and got the responses of trace
Construct(op, args, reqs, trace, cls, job_info) ==
    IF "id" \notin DOMAIN job_info
    THEN /\ cur' = [Raised(op, args, reqs, "KeyError") EXCEPT !.trace = trace]
         /\ UNCHANGED handles
    ELSE /\ handles' = Append(handles, NewHandle(cls, job_info))
         /\ cur' = [Returned(op, args, reqs, RetHandle(Len(handles) + 1))
                        EXCEPT !.trace = trace]

(***************************************************************************)
(* bulk.py: job creation                                                   *)
(***************************************************************************)
Queries == {"select id from account"}
ObjectNames == {"Account"}
Operations == {"insert", "update", "upsert", "delete", "hardDelete"}
ExternalIds == {None, Some(""), Some("Ext__c")}

\* (a test for None in place of the truth value)
Falsy_IsNone(x) == x = None

\* Python truth value of a str | None
Falsy(x) == x = None \/ x = Some("")

create_job_query(query, include_all) ==
    LET args == [query |-> query, include_all |-> include_all]
        _operation == IF include_all THEN "queryAll" ELSE "query"
        req == MakeRequest("POST", <<"query">>, None,
                           [operation |-> _operation, query |-> query], None)
    IN  /\ pc = "idle"
        /\ Len(handles) < MaxHandles
        /\ \E out \in Serve(req, {}) :
              /\ server' = out.srv
              /\ IF raise_for_status(out.resp)
                 THEN /\ cur' = [Raised("create_job_query", args, <<req>>, "HTTPError")
                                     EXCEPT !.trace = <<ResponseEv(out.resp)>>]
                      /\ UNCHANGED handles
                 ELSE Construct("create_job_query", args, <<req>>,
                                <<ResponseEv(out.resp)>>,
                                "SfBulkJobQuery", out.resp.json)
        /\ Requested(None)
        /\ UNCHANGED pc

create_job(object_name, operation, external_id_field) ==
    LET args == [object_name |-> object_name, operation |-> operation,
                 external_id_field |-> external_id_field]
        base == [object |-> object_name, operation |-> operation]
        _payload == IF ~Falsy(external_id_field)
                    THEN DictUpdate(base, [externalIdFieldName |-> external_id_field[1]])
                    ELSE base
        req == MakeRequest("POST", <<"ingest">>, None, _payload, None)
    IN  /\ pc = "idle"
        /\ Len(handles) < MaxHandles
        /\ IF operation = "upsert" /\ Falsy(external_id_field)
           THEN /\ cur' = Raised("create_job", args, <<>>, "ValueError")
                /\ UNCHANGED <<sfBulk, server, handles>>
           ELSE \E out \in Serve(req, {}) :
                   /\ Requested(None)
                   /\ server' = out.srv
                   /\ IF raise_for_status(out.resp)
                      THEN /\ cur' = [Raised("create_job", args, <<req>>, "HTTPError")
                                          EXCEPT !.trace = <<ResponseEv(out.resp)>>]
                           /\ UNCHANGED handles
                      ELSE Construct("create_job", args, <<req>>,
                                     <<ResponseEv(out.resp)>>,
                                     "SfBulkJob", out.resp.json)
        /\ UNCHANGED pc

create_job_insert(object_name) == create_job(object_name, "insert", None)
create_job_update(object_name) == create_job(object_name, "update", None)
create_job_upsert(object_name, external_id_field) ==
    create_job(object_name, "upsert", external_id_field)
create_job_delete(object_name) == create_job(object_name, "delete", None)
create_job_hard_delete(object_name) == create_job(object_name, "hardDelete", None)

(***************************************************************************)
(* bulk.py: status and the poll loops                                      *)
(***************************************************************************)
WaitIntervals == {None, Some(0)}

\* (interval or self._interval: 0 taken for an omitted interval)
_get_final_interval_Or(interval) ==
    IF interval # None /\ interval[1] # 0 THEN interval[1] ELSE sfBulk._interval

_get_final_interval(interval) ==
    IF interval # None THEN interval[1] ELSE sfBulk._interval

StatusEv(resp) == [k |-> "status", resp |-> resp]
SuspendEv(d) == [k |-> "suspend", resp |-> HttpError, d |-> d]

StatusCalls(trace) == {i \in 1..Len(trace) : trace[i].k = "status"}

get_job_query_info(job_id) ==
    LET args == [job_id |-> job_id]
        req == MakeRequest("GET", <<"query", job_id>>, None, EmptyDict, None)
    IN  /\ pc = "idle"
        /\ \E out \in Serve(req, {}) :
              /\ server' = out.srv
              /\ cur' = IF ~raise_for_status(out.resp)
                        THEN Returned("get_job_query_info", args, <<req>>,
                                      RetDict(out.resp.json))
                        ELSE Raised("get_job_query_info", args, <<req>>, "HTTPError")
        /\ Requested(None)
        /\ UNCHANGED <<handles, pc>>

get_job_info(job_id) ==
    LET args == [job_id |-> job_id]
        req == MakeRequest("GET", <<"ingest", job_id>>, None, EmptyDict, None)
    IN  /\ pc = "idle"
        /\ \E out \in Serve(req, {}) :
              /\ server' = out.srv
              /\ cur' = IF ~raise_for_status(out.resp)
                        THEN Returned("get_job_info", args, <<req>>,
                                      RetDict(out.resp.json))
                        ELSE Raised("get_job_info", args, <<req>>, "HTTPError")
        /\ Requested(None)
        /\ UNCHANGED <<handles, pc>>

\* (poll_job_query that goes on only while the state is one it knows)
poll_job_query_terminal_Unknown == {"Aborted", "JobComplete", "Failed", "Queued"}

\* the states at which poll_job_query leaves its loop
poll_job_query_terminal == {"Aborted", "JobComplete", "Failed"}

\* entry of poll_job_query: the loop is about to make its first status call
poll_job_query(job_id, interval) ==
    /\ pc = "idle"
    /\ cur' = Call("poll_job_query", [job_id |-> job_id, interval |-> interval],
                   <<>>, <<>>, "running", "", RetNone)
    /\ pc' = "get_info"
    /\ UNCHANGED <<sfBulk, server, handles>>

\* one turn of the loop of poll_job_query: the status call and the test
poll_job_query_status ==
    LET req == MakeRequest("GET", <<"query", cur.args.job_id>>, None, EmptyDict, None)
    IN  /\ pc = "get_info"
        /\ cur.op = "poll_job_query"
        /\ Cardinality(StatusCalls(cur.trace)) < MaxPolls
        /\ \E out \in Serve(req, {}) :
              LET _job_info == out.resp.json
                  seen == [cur EXCEPT !.reqs = Append(@, req),
                                      !.trace = Append(@, StatusEv(out.resp))]
              IN  /\ server' = out.srv
                  /\ IF raise_for_status(out.resp)
                     THEN /\ cur' = [seen EXCEPT !.outcome = "raised", !.err = "HTTPError"]
                          /\ pc' = "idle"
                     ELSE IF "state" \notin DOMAIN _job_info
                     THEN /\ cur' = [seen EXCEPT !.outcome = "raised", !.err = "KeyError"]
                          /\ pc' = "idle"
                     ELSE IF _job_info["state"] \in poll_job_query_terminal
                     THEN /\ cur' = [seen EXCEPT !.outcome = "returned",
                                                 !.ret = RetDict(_job_info)]
                          /\ pc' = "idle"
                     ELSE /\ cur' = seen
                          /\ pc' = "sleep"
        /\ Requested(None)
        /\ UNCHANGED handles

\* (poll_job_query sleeping for the client's default whatever it is passed)
poll_job_query_sleep_Default ==
    /\ pc = "sleep"
    /\ cur.op = "poll_job_query"
    /\ cur' = [cur EXCEPT !.trace = Append(@, SuspendEv(sfBulk._interval))]
    /\ pc' = "get_info"
    /\ UNCHANGED <<sfBulk, server, handles>>

\* sleep(self._get_final_interval(interval)) of poll_job_query has elapsed
poll_job_query_sleep ==
    /\ pc = "sleep"
    /\ cur.op = "poll_job_query"
    /\ cur' = [cur EXCEPT !.trace =
                   Append(@, SuspendEv(_get_final_interval(cur.args.interval)))]
    /\ pc' = "get_info"
    /\ UNCHANGED <<sfBulk, server, handles>>

\* (poll_job with Aborted left out of the list)
poll_job_terminal_NoAborted == {"JobComplete", "Failed"}

\* the states at which poll_job leaves its loop
poll_job_terminal == {"Aborted", "JobComplete", "Failed"}

\* entry of poll_job
poll_job(job_id, interval) ==
    /\ pc = "idle"
    /\ cur' = Call("poll_job", [job_id |-> job_id, interval |-> interval],
                   <<>>, <<>>, "running", "", RetNone)
    /\ pc' = "get_info"
    /\ UNCHANGED <<sfBulk, server, handles>>

\* one turn of the loop of poll_job
poll_job_status ==
    LET req == MakeRequest("GET", <<"ingest", cur.args.job_id>>, None, EmptyDict, None)
    IN  /\ pc = "get_info"
        /\ cur.op = "poll_job"
        /\ Cardinality(StatusCalls(cur.trace)) < MaxPolls
        /\ \E out \in Serve(req, {}) :
              LET _job_info == out.resp.json
                  seen == [cur EXCEPT !.reqs = Append(@, req),
                                      !.trace = Append(@, StatusEv(out.resp))]
              IN  /\ server' = out.srv
                  /\ IF raise_for_status(out.resp)
                     THEN /\ cur' = [seen EXCEPT !.outcome = "raised", !.err = "HTTPError"]
                          /\ pc' = "idle"
                     ELSE IF "state" \notin DOMAIN _job_info
                     THEN /\ cur' = [seen EXCEPT !.outcome = "raised", !.err = "KeyError"]
                          /\ pc' = "idle"
                     ELSE IF _job_info["state"] \in poll_job_terminal
                     THEN /\ cur' = [seen EXCEPT !.outcome = "returned",
                                                 !.ret = RetDict(_job_info)]
                          /\ pc' = "idle"
                     ELSE /\ cur' = seen
                          /\ pc' = "sleep"
        /\ Requested(None)
        /\ UNCHANGED handles

\* (poll_job with a deadline: it gives up at its second sleep)
poll_job_sleep_Deadline ==
    /\ pc = "sleep"
    /\ cur.op = "poll_job"
    /\ IF Cardinality(StatusCalls(cur.trace)) >= 2
       THEN /\ cur' = [cur EXCEPT !.outcome = "raised", !.err = "TimeoutError"]
            /\ pc' = "idle"
       ELSE /\ cur' = [cur EXCEPT !.trace =
                           Append(@, SuspendEv(_get_final_interval(cur.args.interval)))]
            /\ pc' = "get_info"
    /\ UNCHANGED <<sfBulk, server, handles>>

\* sleep(self._get_final_interval(interval)) of poll_job has elapsed
poll_job_sleep ==
    /\ pc = "sleep"
    /\ cur.op = "poll_job"
    /\ cur' = [cur EXCEPT !.trace =
                   Append(@, SuspendEv(_get_final_interval(cur.args.interval)))]
    /\ pc' = "get_info"
    /\ UNCHANGED <<sfBulk, server, handles>>

(***************************************************************************)
(* bulk.py: upload and completion                                          *)
(***************************************************************************)
CsvData == {"Name,Industry\nTest Account 1,Technology\n"}

upload_job_data(job_id, csv_data) ==
    LET args == [job_id |-> job_id, csv_data |-> csv_data]
        req == MakeRequest("PUT", <<"ingest", job_id, "batches">>,
                           Some("Content-Type" :> "text/csv"), EmptyDict, Some(csv_data))
    IN  /\ pc = "idle"
        /\ \E out \in Serve(req, {}) :
              /\ server' = out.srv
              /\ cur' = IF ~raise_for_status(out.resp)
                        THEN Returned("upload_job_data", args, <<req>>, RetNone)
                        ELSE Raised("upload_job_data", args, <<req>>, "HTTPError")
        /\ Requested(Some("Content-Type" :> "text/csv"))
        /\ UNCHANGED <<handles, pc>>

uploaded_job(job_id) ==
    LET args == [job_id |-> job_id]
        req == MakeRequest("PATCH", <<"ingest", job_id>>, None,
                           [state |-> "UploadComplete"], None)
    IN  /\ pc = "idle"
        /\ \E out \in Serve(req, {}) :
              /\ server' = out.srv
              /\ cur' = IF ~raise_for_status(out.resp)
                        THEN Returned("uploaded_job", args, <<req>>, RetNone)
                        ELSE Raised("uploaded_job", args, <<req>>, "HTTPError")
        /\ Requested(None)
        /\ UNCHANGED <<handles, pc>>

(***************************************************************************)
(* csv.reader / csv.DictReader over io.StringIO(text), excel dialect       *)
(***************************************************************************)
\* io.StringIO yields the lines of the text, each ending after its "\n";
\* the reader feeds the characters of a line to its state machine, then the
\* end-of-line mark EOL
EOL == "EOL"

ParserInit == [state |-> "START_RECORD", field |-> <<>>, fields |-> <<>>,
               rows |-> <<>>, err |-> FALSE]

parse_save_field(p) == [p EXCEPT !.fields = Append(@, p.field), !.field = <<>>]

parse_add_char(p, c) == [p EXCEPT !.field = Append(@, c)]

IsNewline(c) == c = "\n" \/ c = "\r"

AfterLine(c) == IF c = EOL THEN "START_RECORD" ELSE "EAT_CRNL"

start_field(p, c) ==
    IF IsNewline(c) \/ c = EOL
    THEN [parse_save_field(p) EXCEPT !.state = AfterLine(c)]
    ELSE IF c = "\"" THEN [p EXCEPT !.state = "IN_QUOTED_FIELD"]
    ELSE IF c = "," THEN parse_save_field(p)
    ELSE [parse_add_char(p, c) EXCEPT !.state = "IN_FIELD"]

parse_process_char(p, c) ==
    CASE p.state = "START_RECORD" ->
            IF c = EOL THEN p
            ELSE IF IsNewline(c) THEN [p EXCEPT !.state = "EAT_CRNL"]
            ELSE start_field([p EXCEPT !.state = "START_FIELD"], c)
      [] p.state = "START_FIELD" -> start_field(p, c)
      [] p.state = "IN_FIELD" ->
            IF IsNewline(c) \/ c = EOL
            THEN [parse_save_field(p) EXCEPT !.state = AfterLine(c)]
            ELSE IF c = ","
            THEN [parse_save_field(p) EXCEPT !.state = "START_FIELD"]
            ELSE parse_add_char(p, c)
      [] p.state = "IN_QUOTED_FIELD" ->
            IF c = EOL THEN p
            ELSE IF c = "\"" THEN [p EXCEPT !.state = "QUOTE_IN_QUOTED_FIELD"]
            ELSE parse_add_char(p, c)
      [] p.state = "QUOTE_IN_QUOTED_FIELD" ->
            IF c = "\"" THEN [parse_add_char(p, c) EXCEPT !.state = "IN_QUOTED_FIELD"]
            ELSE IF c = ","
            THEN [parse_save_field(p) EXCEPT !.state = "START_FIELD"]
            ELSE IF IsNewline(c) \/ c = EOL
            THEN [parse_save_field(p) EXCEPT !.state = AfterLine(c)]
            ELSE [parse_add_char(p, c) EXCEPT !.state = "IN_FIELD"]
      [] p.state = "EAT_CRNL" ->
            IF IsNewline(c) THEN p
            ELSE IF c = EOL THEN [p EXCEPT !.state = "START_RECORD"]
            ELSE [p EXCEPT !.err = TRUE]

\* the end of a line: a record is complete when the machine is back at
\* START_RECORD
EndOfLine(p) ==
    LET q == parse_process_char(p, EOL)
    IN  IF q.state = "START_RECORD" /\ ~q.err
        THEN [q EXCEPT !.rows = Append(@, q.fields), !.fields = <<>>]
        ELSE q

\* the end of the input: a field that was begun is saved and the record returned
EndOfInput(p) ==
    IF p.field # <<>> \/ p.state = "IN_QUOTED_FIELD"
    THEN LET q == parse_save_field(p)
         IN  [q EXCEPT !.rows = Append(@, q.fields), !.fields = <<>>]
    ELSE p

RECURSIVE Reader_iter(_, _, _)
Reader_iter(text, i, p) ==
    IF p.err THEN p
    ELSE IF i > Len(text) THEN EndOfInput(p)
    ELSE LET q == parse_process_char(p, text[i])
         IN  IF q.err THEN q
             ELSE IF text[i] = "\n" \/ i = Len(text)
             THEN Reader_iter(text, i + 1, EndOfLine(q))
             ELSE Reader_iter(text, i + 1, q)

\* list(csv.reader(io.StringIO(text))): [err, rows]
csv_reader(text) == Reader_iter(text, 1, ParserInit)

\* the values of a record of DictReader: a cell, None, or the list of the
\* cells beyond the header
CellStr(c) == [t |-> "str", v |-> c]
CellNone == [t |-> "None"]
CellList(cs) == [t |-> "list", v |-> cs]

\* (the first assignment to a key kept, later ones dropped)
WinningIndex_First(fieldnames, name) ==
    CHOOSE i \in 1..Len(fieldnames) :
        /\ fieldnames[i] = name
        /\ \A k \in 1..Len(fieldnames) : fieldnames[k] = name => i <= k

\* the index of fieldnames whose assignment to the key name comes last
WinningIndex(fieldnames, name) ==
    CHOOSE i \in 1..Len(fieldnames) :
        /\ fieldnames[i] = name
        /\ \A k \in 1..Len(fieldnames) : fieldnames[k] = name => k <= i

\* dict(zip(fieldnames, row)), then restkey / restval; keys are Some(name),
\* the restkey is None
DictRow(fieldnames, row) ==
    LET lf == Len(fieldnames)
        lr == Len(row)
        keys == {Some(fieldnames[i]) : i \in 1..lf}
        val(i) == IF i <= lr THEN CellStr(row[i]) ELSE CellNone
        d == [k \in keys |-> val(WinningIndex(fieldnames, k[1]))]
    IN  IF lf < lr
        THEN [k \in keys \cup {None} |->
                 IF k = None THEN CellList(SubSeq(row, lf + 1, lr)) ELSE d[k]]
        ELSE d

RECURSIVE DictRows(_, _, _)
DictRows(fieldnames, rows, i) ==
    IF i > Len(rows) THEN <<>>
    ELSE IF rows[i] = <<>> THEN DictRows(fieldnames, rows, i + 1)
    ELSE <<DictRow(fieldnames, rows[i])>> \o DictRows(fieldnames, rows, i + 1)

\* list(csv.DictReader(io.StringIO(text))): [err, rows]
csv_DictReader(text) ==
    LET r == csv_reader(text)
    IN  IF r.err \/ r.rows = <<>> THEN [err |-> r.err, rows |-> <<>>]
        ELSE [err |-> FALSE, rows |-> DictRows(r.rows[1], r.rows, 2)]

(***************************************************************************)
(* bulk.py: result retrieval                                               *)
(***************************************************************************)
\* (FormatType without "csv")
allowed_formats_NoCsv == {"dict", "reader"}

\* get_args(FormatType.__value__)
allowed_formats == {"dict", "reader", "csv"}

\* the format_type arguments callers pass
FormatArgs == {"dict", "reader", "csv", "xml"}

RetRecords(rs) == [t |-> "records", v |-> rs]
RetRows(rs) == [t |-> "rows", v |-> rs]
RetText(txt) == [t |-> "text", v |-> txt]

\* the value _get_csv_results makes of the response text
Materialize(format_type, text) ==
    CASE format_type = "dict" ->
            LET r == csv_DictReader(text)
            IN  [err |-> r.err, ret |-> RetRecords(r.rows)]
      [] format_type = "reader" ->
            LET r == csv_reader(text)
            IN  [err |-> r.err, ret |-> RetRows(r.rows)]
      [] format_type = "csv" -> [err |-> FALSE, ret |-> RetText(text)]

_get_csv_results(op, job_id, endpoint, format_type, payloads) ==
    LET args == [job_id |-> job_id, format_type |-> format_type]
        req == MakeRequest("GET", endpoint, None, EmptyDict, None)
    IN  /\ pc = "idle"
        /\ IF format_type \notin allowed_formats
           THEN /\ cur' = Raised(op, args, <<>>, "ValueError")
                /\ UNCHANGED <<sfBulk, server>>
           ELSE \E out \in Serve(req, payloads) :
                   LET m == Materialize(format_type, out.resp.text)
                       done == IF raise_for_status(out.resp) THEN Raised(op, args, <<req>>, "HTTPError")
                               ELSE IF m.err THEN Raised(op, args, <<req>>, "csv.Error")
                               ELSE Returned(op, args, <<req>>, m.ret)
                   IN  /\ Requested(None)
                       /\ server' = out.srv
                       /\ cur' = [done EXCEPT !.trace = <<ResponseEv(out.resp)>>]
        /\ UNCHANGED <<handles, pc>>

get_job_query_results(job_id, format_type, payloads) ==
    _get_csv_results("get_job_query_results", job_id,
                     <<"query", job_id, "results">>, format_type, payloads)

get_ingest_successful_results(job_id, format_type, payloads) ==
    _get_csv_results("get_ingest_successful_results", job_id,
                     <<"ingest", job_id, "successfulResults">>, format_type, payloads)

get_ingest_failed_results(job_id, format_type, payloads) ==
    _get_csv_results("get_ingest_failed_results", job_id,
                     <<"ingest", job_id, "failedResults">>, format_type, payloads)

\* (the last path segment in camel case, like its two siblings)
get_ingest_unprocessed_records_CamelCase(job_id, format_type, payloads) ==
    _get_csv_results("get_ingest_unprocessed_records", job_id,
                     <<"ingest", job_id, "unprocessedRecords">>, format_type, payloads)

get_ingest_unprocessed_records(job_id, format_type, payloads) ==
    _get_csv_results("get_ingest_unprocessed_records", job_id,
                     <<"ingest", job_id, "unprocessedrecords">>, format_type, payloads)

(***************************************************************************)
(* bulk_job.py: the handles                                                *)
(***************************************************************************)
Handles(cls) == {h \in 1..Len(handles) : handles[h].cls = cls}

\* SfBulkJobQuery(sf_bulk, job_info) / SfBulkJob(sf_bulk, job_info) called by
\* the user on the snapshot the wait has just returned
JobHandle(cls) ==
    /\ pc = "idle"
    /\ Len(handles) < MaxHandles
    /\ cur.outcome = "returned"
    /\ cur.ret.t = "dict"
    /\ cur.op = (IF cls = "SfBulkJobQuery" THEN "poll_job_query" ELSE "poll_job")
    /\ Construct(cls, [job_info |-> cur.ret.v], <<>>, <<>>, cls, cur.ret.v)
    /\ UNCHANGED <<sfBulk, server, pc>>

\* (a handle that notes the completed upload in its cache before it calls
\* the client)
Delegate_NotesUpload(op, cls, h, group, args) ==
    /\ pc = "idle"
    /\ h \in Handles(cls)
    /\ handles' = IF op = "SfBulkJob.complete_upload"
                  THEN [handles EXCEPT ![h]._info =
                            DictUpdate(@, [state |-> "UploadComplete"])]
                  ELSE handles
    /\ cur' = Raised(op, DictUpdate([h |-> h], args), <<>>, "AttributeError")
    /\ UNCHANGED <<sfBulk, server, pc>>

\* a method of a handle whose body starts with self._sf_bulk.<group>.<method>:
\* the lookup of <group> on the SfBulk instance comes first
Delegate(op, cls, h, group, args) ==
    /\ pc = "idle"
    /\ h \in Handles(cls)
    /\ IF ~HasAttr(SfBulkAttrs, group)
       THEN cur' = Raised(op, DictUpdate([h |-> h], args), <<>>, "AttributeError")
       ELSE FALSE
    /\ UNCHANGED <<sfBulk, server, handles, pc>>

SfBulkJobQuery_get_info(h) ==
    Delegate("SfBulkJobQuery.get_info", "SfBulkJobQuery", h, "query", NoArgs)

SfBulkJobQuery_wait(h, interval) ==
    Delegate("SfBulkJobQuery.wait", "SfBulkJobQuery", h, "query",
             [interval |-> interval])

SfBulkJobQuery_get_results(h, format_type) ==
    Delegate("SfBulkJobQuery.get_results", "SfBulkJobQuery", h, "query",
             [format_type |-> format_type])

SfBulkJob_upload_data(h, csv_data) ==
    Delegate("SfBulkJob.upload_data", "SfBulkJob", h, "ingest", [csv_data |-> csv_data])

SfBulkJob_complete_upload(h) ==
    Delegate("SfBulkJob.complete_upload", "SfBulkJob", h, "ingest", NoArgs)

SfBulkJob_get_info(h) ==
    Delegate("SfBulkJob.get_info", "SfBulkJob", h, "ingest", NoArgs)

SfBulkJob_wait(h, interval) ==
    Delegate("SfBulkJob.wait", "SfBulkJob", h, "ingest", [interval |-> interval])

SfBulkJob_get_successful_results(h, format_type) ==
    Delegate("SfBulkJob.get_successful_results", "SfBulkJob", h, "ingest",
             [format_type |-> format_type])

SfBulkJob_get_failed_results(h, format_type) ==
    Delegate("SfBulkJob.get_failed_results", "SfBulkJob", h, "ingest",
             [format_type |-> format_type])

SfBulkJob_get_unprocessed_records(h, format_type) ==
    Delegate("SfBulkJob.get_unprocessed_records", "SfBulkJob", h, "ingest",
             [format_type |-> format_type])

(***************************************************************************)
(* bulk_job.py: the predicates of SfBulkJob                                *)
(***************************************************************************)
\* self.info.get("state") == s
StateIs(info, s) == IF "state" \in DOMAIN info THEN info["state"] = s ELSE FALSE

\* (is_successful reading the state with "JobComplete" as default)
is_successful_Default(info) ==
    IF "state" \in DOMAIN info THEN info["state"] = "JobComplete" ELSE TRUE

is_successful(info) == StateIs(info, "JobComplete")
\* (is_failed that takes an aborted job for a failed one)
is_failed_OrAborted(info) == StateIs(info, "Failed") \/ StateIs(info, "Aborted")

is_failed(info) == StateIs(info, "Failed")
is_aborted(info) == StateIs(info, "Aborted")

Digits == <<"0", "1", "2", "3", "4", "5", "6", "7", "8", "9">>
IsDigit(c) == \E i \in 1..10 : Digits[i] = c
DigitVal(c) == (CHOOSE i \in 1..10 : Digits[i] = c) - 1

RECURSIVE Strip(_)
Strip(s) ==
    IF s = <<>> THEN s
    ELSE IF Head(s) = " " THEN Strip(Tail(s))
    ELSE IF s[Len(s)] = " " THEN Strip(SubSeq(s, 1, Len(s) - 1))
    ELSE s

RECURSIVE DigitsVal(_)
DigitsVal(s) ==
    IF s = <<>> THEN 0 ELSE 10 * DigitsVal(SubSeq(s, 1, Len(s) - 1)) + DigitVal(s[Len(s)])

\* int(x) of Python for an int and for a str: [ok, v]
PyInt(x) ==
    IF x.t = "int" THEN [ok |-> TRUE, v |-> x.n]
    ELSE LET s == Strip(x.s)
             signed == s # <<>> /\ Head(s) \in {"-", "+"}
             ds == IF signed THEN Tail(s) ELSE s
         IN  IF ds # <<>> /\ \A i \in 1..Len(ds) : IsDigit(ds[i])
             THEN [ok |-> TRUE,
                   v |-> IF signed /\ Head(s) = "-" THEN 0 - DigitsVal(ds) ELSE DigitsVal(ds)]
             ELSE [ok |-> FALSE, v |-> 0]

\* int(self.info.get("numberRecordsFailed", 0)) > 0: [ok, v]
has_failed_records(info) ==
    LET n == PyInt(DictGet(info, "numberRecordsFailed", NrfInt(0)))
    IN  [ok |-> n.ok, v |-> n.ok /\ n.v > 0]

Predicate(op, h, v) ==
    /\ pc = "idle"
    /\ h \in Handles("SfBulkJob")
    /\ cur' = Returned(op, [h |-> h], <<>>, RetBool(v))
    /\ UNCHANGED <<sfBulk, server, handles, pc>>

SfBulkJob_is_successful(h) ==
    Predicate("SfBulkJob.is_successful", h, is_successful(handles[h]._info))

SfBulkJob_is_failed(h) ==
    Predicate("SfBulkJob.is_failed", h, is_failed(handles[h]._info))

SfBulkJob_is_aborted(h) ==
    Predicate("SfBulkJob.is_aborted", h, is_aborted(handles[h]._info))

SfBulkJob_has_failed_records(h) ==
    /\ pc = "idle"
    /\ h \in Handles("SfBulkJob")
    /\ LET r == has_failed_records(handles[h]._info)
       IN  cur' = IF r.ok
                  THEN Returned("SfBulkJob.has_failed_records", [h |-> h], <<>>, RetBool(r.v))
                  ELSE Raised("SfBulkJob.has_failed_records", [h |-> h], <<>>, "ValueError")
    /\ UNCHANGED <<sfBulk, server, handles, pc>>

(***************************************************************************)
(* The server's own steps                                                  *)
(***************************************************************************)
\* the states a job in state st may move to
\* (an ingest job is processed in state InProgress; for a query job the
\* server reports Queued, a state the client has no name for)
ServerMoves(family, st) ==
    CASE st = "Open" -> {"Aborted"}
      [] st = "UploadComplete" ->
            {IF family = "ingest" THEN "InProgress" ELSE "Queued", "Aborted"}
      [] st \in {"Queued", "InProgress"} -> {"JobComplete", "Failed", "Aborted"}
      [] OTHER -> {}

ServerStep(j) ==
    /\ server[j].family # "none"
    /\ \E st \in ServerMoves(server[j].family, server[j].state) :
          \E n \in (IF st = "JobComplete" /\ server[j].family = "ingest"
                    THEN NrfValues ELSE {None}) :
             server' = [server EXCEPT ![j].state = st, ![j].nrf = n]
    /\ UNCHANGED <<sfBulk, handles, pc, cur>>

(***************************************************************************)
(* Specifications                                                          *)
(***************************************************************************)
Payloads == {<<"a", ",", "a", "\n", "b", ",", "c", "\n">>}

Next ==
    \/ \E q \in Queries, a \in BOOLEAN : create_job_query(q, a)
    \/ \E o \in ObjectNames, op \in Operations, x \in ExternalIds : create_job(o, op, x)
    \/ \E o \in ObjectNames : create_job_insert(o)
    \/ \E o \in ObjectNames : create_job_update(o)
    \/ \E o \in ObjectNames, x \in ExternalIds \ {None} : create_job_upsert(o, x)
    \/ \E o \in ObjectNames : create_job_delete(o)
    \/ \E o \in ObjectNames : create_job_hard_delete(o)
    \/ \E j \in JobIds : get_job_query_info(j)
    \/ \E j \in JobIds : get_job_info(j)
    \/ \E j \in JobIds, i \in WaitIntervals : poll_job_query(j, i)
    \/ poll_job_query_status
    \/ poll_job_query_sleep
    \/ \E j \in JobIds, i \in WaitIntervals : poll_job(j, i)
    \/ poll_job_status
    \/ poll_job_sleep
    \/ \E j \in JobIds, d \in CsvData : upload_job_data(j, d)
    \/ \E j \in JobIds : uploaded_job(j)
    \/ \E j \in JobIds, f \in FormatArgs : get_job_query_results(j, f, Payloads)
    \/ \E j \in JobIds, f \in FormatArgs : get_ingest_successful_results(j, f, Payloads)
    \/ \E j \in JobIds, f \in FormatArgs : get_ingest_failed_results(j, f, Payloads)
    \/ \E j \in JobIds, f \in FormatArgs : get_ingest_unprocessed_records(j, f, Payloads)
    \/ JobHandle("SfBulkJobQuery")
    \/ JobHandle("SfBulkJob")
    \/ \E h \in 1..MaxHandles : SfBulkJobQuery_get_info(h)
    \/ \E h \in 1..MaxHandles : SfBulkJobQuery_wait(h, None)
    \/ \E h \in 1..MaxHandles : SfBulkJobQuery_get_results(h, "dict")
    \/ \E h \in 1..MaxHandles, d \in CsvData : SfBulkJob_upload_data(h, d)
    \/ \E h \in 1..MaxHandles : SfBulkJob_complete_upload(h)
    \/ \E h \in 1..MaxHandles : SfBulkJob_get_info(h)
    \/ \E h \in 1..MaxHandles : SfBulkJob_wait(h, None)
    \/ \E h \in 1..MaxHandles : SfBulkJob_get_successful_results(h, "dict")
    \/ \E h \in 1..MaxHandles : SfBulkJob_get_failed_results(h, "dict")
    \/ \E h \in 1..MaxHandles : SfBulkJob_get_unprocessed_records(h, "dict")
    \/ \E h \in 1..MaxHandles : SfBulkJob_is_successful(h)
    \/ \E h \in 1..MaxHandles : SfBulkJob_is_failed(h)
    \/ \E h \in 1..MaxHandles : SfBulkJob_is_aborted(h)
    \/ \E h \in 1..MaxHandles : SfBulkJob_has_failed_records(h)
    \/ \E j \in JobIds : ServerStep(j)

Spec == Init /\ [][Next]_vars

(***************************************************************************)
(* The decoder on every short payload: a finished query job and a finished *)
(* ingest job, each with the handle its creation returned, and the result  *)
(* getters called on them, the server answering with any text              *)
(***************************************************************************)
CsvChars == {"a", ",", "\n", "\"", "\r"}
CsvTexts == UNION {[1..n -> CsvChars] : n \in 0..MaxCsvLen}

InitCsv ==
    /\ sfBulk = SfBulkInit(None)
    /\ server = [j \in JobIds |->
                    IF j = IdOrder[1]
                    THEN [family |-> "query", state |-> "JobComplete", nrf |-> None]
                    ELSE IF j = IdOrder[2]
                    THEN [family |-> "ingest", state |-> "JobComplete",
                          nrf |-> Some(NrfInt(0))]
                    ELSE NoJob]
    /\ handles = <<NewHandle("SfBulkJobQuery", [id |-> IdOrder[1], state |-> "UploadComplete"]),
                   NewHandle("SfBulkJob", [id |-> IdOrder[2], state |-> "Open"])>>
    /\ pc = "idle"
    /\ cur = NoCall

\* the getters keep nothing between calls: one call in a behaviour shows
\* every decoding
FirstCall == cur = NoCall

NextCsv ==
    \/ FirstCall /\ \E f \in FormatArgs : get_job_query_results(IdOrder[1], f, CsvTexts)
    \/ FirstCall /\ \E f \in FormatArgs : get_ingest_failed_results(IdOrder[2], f, CsvTexts)

SpecCsv == InitCsv /\ [][NextCsv]_vars

(***************************************************************************)
(* The waits under fair scheduling: a query job that has been submitted    *)
(* and an ingest job that is still open, the caller waiting for either,    *)
(* perhaps closing the upload first.  The calling thread goes on running:  *)
(* every status request ends (requests.request has a timeout) and every    *)
(* sleep ends.  Nothing is assumed of the server.                          *)
(***************************************************************************)
InitWait ==
    /\ sfBulk = SfBulkInit(None)
    /\ server = [j \in JobIds |->
                    IF j = IdOrder[1]
                    THEN [family |-> "query", state |-> "UploadComplete", nrf |-> None]
                    ELSE IF j = IdOrder[2]
                    THEN [family |-> "ingest", state |-> "Open", nrf |-> None]
                    ELSE NoJob]
    /\ handles = <<NewHandle("SfBulkJobQuery", [id |-> IdOrder[1], state |-> "UploadComplete"]),
                   NewHandle("SfBulkJob", [id |-> IdOrder[2], state |-> "Open"])>>
    /\ pc = "idle"
    /\ cur = NoCall

NextWait ==
    \/ \E j \in JobIds, i \in WaitIntervals : poll_job_query(j, i)
    \/ poll_job_query_status
    \/ poll_job_query_sleep
    \/ \E j \in JobIds, i \in WaitIntervals : poll_job(j, i)
    \/ poll_job_status
    \/ poll_job_sleep
    \/ \E j \in JobIds : uploaded_job(j)
    \/ \E j \in JobIds : ServerStep(j)

SpecWait ==
    /\ InitWait
    /\ [][NextWait]_vars
    /\ WF_vars(poll_job_query_status)
    /\ WF_vars(poll_job_query_sleep)
    /\ WF_vars(poll_job_status)
    /\ WF_vars(poll_job_sleep)

(***************************************************************************)
(* Handles made of a status: the client is attached to a query job and an  *)
(* ingest job that are on the server already; the caller asks for the      *)
(* status of the ingest job, makes a handle of the dict it gets (with or   *)
(* without a state in it), asks the handle's predicates, and waits.        *)
(***************************************************************************)
InitStatus ==
    /\ sfBulk = SfBulkInit(None)
    /\ server = [j \in JobIds |->
                    IF j = IdOrder[1]
                    THEN [family |-> "query", state |-> "UploadComplete", nrf |-> None]
                    ELSE IF j = IdOrder[2]
                    THEN [family |-> "ingest", state |-> "Open", nrf |-> None]
                    ELSE NoJob]
    /\ handles = <<>>
    /\ pc = "idle"
    /\ cur = NoCall

\* SfBulkJob(sf_bulk, job_info) called by the user on the dict get_job_info
\* has just returned
JobHandleOfInfo ==
    /\ pc = "idle"
    /\ Len(handles) < MaxHandles
    /\ cur.op = "get_job_info"
    /\ cur.outcome = "returned"
    /\ Construct("SfBulkJob", [job_info |-> cur.ret.v], <<>>, <<>>, "SfBulkJob", cur.ret.v)
    /\ UNCHANGED <<sfBulk, server, pc>>

NextStatus ==
    \/ \E j \in JobIds : get_job_info(j)
    \/ JobHandleOfInfo
    \/ \E j \in JobIds, i \in WaitIntervals : poll_job_query(j, i)
    \/ poll_job_query_status
    \/ poll_job_query_sleep
    \/ \E j \in JobIds, i \in WaitIntervals : poll_job(j, i)
    \/ poll_job_status
    \/ poll_job_sleep
    \/ \E j \in JobIds : uploaded_job(j)
    \/ \E h \in 1..MaxHandles : SfBulkJob_is_successful(h)
    \/ \E h \in 1..MaxHandles : SfBulkJob_is_failed(h)
    \/ \E h \in 1..MaxHandles : SfBulkJob_is_aborted(h)
    \/ \E j \in JobIds : ServerStep(j)

SpecStatus == InitStatus /\ [][NextStatus]_vars

(***************************************************************************)
(* Properties                                                              *)
(***************************************************************************)
Done == cur.outcome \in {"returned", "raised"}
InWait == cur.op \in {"poll_job_query", "poll_job"}

\* the three terminal states, as the specification names them
TerminalNames == {"JobComplete", "Failed", "Aborted"}

\* the i-th event of the wait is a status call that succeeded / that reported
\* a state / a terminal state / a state that is not terminal
Answered(i) == cur.trace[i].k = "status" /\ cur.trace[i].resp.ok
Reported(i) == Answered(i) /\ "state" \in DOMAIN cur.trace[i].resp.json
SawTerminal(i) == Reported(i) /\ cur.trace[i].resp.json["state"] \in TerminalNames
SawOther(i) == Reported(i) /\ cur.trace[i].resp.json["state"] \notin TerminalNames

StatusCount == Cardinality({i \in 1..Len(cur.trace) : cur.trace[i].k = "status"})
SuspendCount == Cardinality({i \in 1..Len(cur.trace) : cur.trace[i].k = "suspend"})

\* C1: in both poll loops a status call that reports JobComplete, Failed or
\* Aborted is the last event of the wait: the wait returns that snapshot at
\* once, with no status call and no suspend after it; a wait that has
\* returned has seen exactly one terminal state, at its last status call,
\* and only non-terminal states before.
C1_ReturnsAtFirstTerminal ==
    InWait =>
        LET n == Len(cur.trace)
        IN  /\ \A i \in 1..n :
                  SawTerminal(i) =>
                      /\ i = n
                      /\ pc = "idle"
                      /\ cur.outcome = "returned"
                      /\ cur.ret.t = "dict"
                      /\ cur.ret.v = cur.trace[i].resp.json
            /\ cur.outcome = "returned" =>
                  /\ n >= 1
                  /\ SawTerminal(n)
                  /\ \A i \in 1..(n - 1) : cur.trace[i].k = "status" => SawOther(i)
                  /\ Len(cur.reqs) = StatusCount

\* a wait on an ingest job has returned an Aborted snapshot after two polls
\* that saw the job not yet finished
C1_Witness ==
    /\ cur.op = "poll_job"
    /\ cur.outcome = "returned"
    /\ StatusCount = 3
    /\ cur.ret.v["state"] = "Aborted"

\* C2: every state outside the terminal three, known or not, keeps the wait
\* polling; status calls and suspends alternate strictly, beginning with a
\* status call, so that a wait that returns after n status calls has made
\* n - 1 suspends and has sent n requests.
C2_PollsAlternate ==
    InWait =>
        LET n == Len(cur.trace)
        IN  /\ \A i \in 1..n : (cur.trace[i].k = "status") <=> (i % 2 = 1)
            /\ \A i \in 1..n : (cur.trace[i].k = "suspend") <=> (i % 2 = 0)
            /\ Len(cur.reqs) = StatusCount
            /\ (n >= 1 /\ SawOther(n)) => (pc = "sleep" /\ cur.outcome = "running")
            /\ (pc = "sleep") => (n >= 1 /\ SawOther(n))
            /\ (pc = "get_info") => (n = 0 \/ cur.trace[n].k = "suspend")
            /\ \A i \in 1..(n - 1) : cur.trace[i].k = "status" => SawOther(i)
            /\ cur.outcome = "returned" => SuspendCount = StatusCount - 1

\* a wait on a query job has returned at its third status call, after the
\* server had reported a state the client does not know
C2_Witness ==
    /\ cur.op = "poll_job_query"
    /\ cur.outcome = "returned"
    /\ StatusCount = 3
    /\ SuspendCount = 2
    /\ \E i \in 1..Len(cur.trace) :
          Reported(i) /\ cur.trace[i].resp.json["state"] = "Queued"

\* C3: create_job for an upsert without an external id field (None or "")
\* raises ValueError without sending a request and returns no handle; every
\* other call of create_job sends exactly one POST to ingest.
C3_UpsertNeedsExternalId ==
    (cur.op = "create_job" /\ Done) =>
        IF cur.args.operation = "upsert" /\ cur.args.external_id_field \in {None, Some("")}
        THEN /\ cur.outcome = "raised"
             /\ cur.err = "ValueError"
             /\ cur.reqs = <<>>
             /\ cur.ret = RetNone
        ELSE /\ Len(cur.reqs) = 1
             /\ cur.reqs[1].method = "POST"
             /\ cur.reqs[1].endpoint = <<"ingest">>
             /\ cur.err # "ValueError"

\* an upsert with the empty string as external id field has been refused
C3_Witness ==
    /\ cur.op = "create_job"
    /\ cur.args.operation = "upsert"
    /\ cur.args.external_id_field = Some("")
    /\ cur.outcome = "raised"
    /\ cur.reqs = <<>>

ResultGetters == {"get_job_query_results", "get_ingest_successful_results",
                  "get_ingest_failed_results", "get_ingest_unprocessed_records"}

\* C4: each of the four result getters raises ValueError without sending a
\* request when the format is none of dict, reader, csv, and sends exactly
\* one GET when it is one of them.
C4_FormatCheckedFirst ==
    (cur.op \in ResultGetters /\ Done) =>
        IF cur.args.format_type \notin {"dict", "reader", "csv"}
        THEN /\ cur.outcome = "raised"
             /\ cur.err = "ValueError"
             /\ cur.reqs = <<>>
        ELSE /\ Len(cur.reqs) = 1
             /\ cur.reqs[1].method = "GET"
             /\ cur.err # "ValueError"

\* the unprocessed records of a job have been asked for as xml
C4_Witness ==
    /\ cur.op = "get_ingest_unprocessed_records"
    /\ cur.args.format_type = "xml"
    /\ cur.outcome = "raised"
    /\ cur.reqs = <<>>

\* C5: a status call that fails inside a wait ends the wait with that error:
\* it is the last event of the wait, no suspend and no status call follow,
\* and the wait raises HTTPError, however many polls went well before.
C5_StatusErrorEndsWait ==
    InWait =>
        \A i \in 1..Len(cur.trace) :
            (cur.trace[i].k = "status" /\ ~cur.trace[i].resp.ok) =>
                /\ i = Len(cur.trace)
                /\ pc = "idle"
                /\ cur.outcome = "raised"
                /\ cur.err = "HTTPError"
                /\ Len(cur.reqs) = StatusCount

\* a wait has failed at its third status call, after two polls that went well
C5_Witness ==
    /\ InWait
    /\ cur.outcome = "raised"
    /\ cur.err = "HTTPError"
    /\ StatusCount = 3
    /\ SawOther(1)
    /\ SawOther(3)

\* C6: has_failed_records returns, for every cached status: TRUE when
\* numberRecordsFailed is there and parses to an integer above 0, FALSE when
\* it is absent, is not a number, or is 0; it never raises.
C6_HasFailedRecordsNeverRaises ==
    (cur.op = "SfBulkJob.has_failed_records" /\ Done) =>
        LET info == handles[cur.args.h]._info
            n == PyInt(DictGet(info, "numberRecordsFailed", NrfInt(0)))
        IN  /\ cur.outcome = "returned"
            /\ cur.ret = RetBool(n.ok /\ n.v > 0)

DelegatingOps ==
    {"SfBulkJobQuery.get_info", "SfBulkJobQuery.wait", "SfBulkJobQuery.get_results",
     "SfBulkJob.upload_data", "SfBulkJob.complete_upload", "SfBulkJob.get_info",
     "SfBulkJob.wait", "SfBulkJob.get_successful_results",
     "SfBulkJob.get_failed_results", "SfBulkJob.get_unprocessed_records"}

\* C7: every delegating method of a handle runs the client's operation for
\* the handle's own id (its requests go to that job); wait and get_info
\* store the snapshot they return in the cache, and the snapshot a wait
\* returns is terminal.
C7_HandleReachesClient ==
    (cur.op \in DelegatingOps /\ Done) =>
        LET h == handles[cur.args.h]
        IN  /\ cur.reqs # <<>>
            /\ \A i \in 1..Len(cur.reqs) :
                  Len(cur.reqs[i].endpoint) >= 2 /\ cur.reqs[i].endpoint[2] = h.id
            /\ cur.err \in {"", "HTTPError"}
            /\ (cur.outcome = "returned"
                   /\ cur.op \in {"SfBulkJobQuery.get_info", "SfBulkJobQuery.wait",
                                  "SfBulkJob.get_info", "SfBulkJob.wait"}) =>
                  /\ cur.ret = RetDict(h._info)
                  /\ cur.op \in {"SfBulkJobQuery.wait", "SfBulkJob.wait"} =>
                        StateIs(h._info, "JobComplete") \/ StateIs(h._info, "Failed")
                            \/ StateIs(h._info, "Aborted")

\* C8: the ingest sequence through the handle: upload_data, complete_upload,
\* wait and get_successful_results on the handle of an ingest job on the
\* server end without error unless the server refuses the request; when the
\* wait has returned JobComplete with numberRecordsFailed 0, is_successful is
\* true and has_failed_records false.
C8_IngestEndToEnd ==
    (cur.op \in {"SfBulkJob.upload_data", "SfBulkJob.complete_upload", "SfBulkJob.wait",
                 "SfBulkJob.get_successful_results"} /\ Done) =>
        LET h == handles[cur.args.h]
        IN  /\ cur.outcome = "returned" \/ cur.err = "HTTPError"
            /\ (cur.op = "SfBulkJob.wait" /\ cur.outcome = "returned"
                   /\ server[h.id].state = "JobComplete"
                   /\ server[h.id].nrf = Some(NrfInt(0))) =>
                  /\ cur.ret = RetDict(h._info)
                  /\ is_successful(h._info)
                  /\ has_failed_records(h._info) = [ok |-> TRUE, v |-> FALSE]

\* the text the server has answered the result getter with
Payload == cur.trace[1].resp.text

Decoded == cur.op \in ResultGetters /\ cur.outcome = "returned"

\* the rows of a payload after its first that are not empty
RECURSIVE NonEmptyFrom(_, _)
NonEmptyFrom(rows, i) ==
    IF i > Len(rows) THEN <<>>
    ELSE IF rows[i] = <<>> THEN NonEmptyFrom(rows, i + 1)
    ELSE <<rows[i]>> \o NonEmptyFrom(rows, i + 1)

\* the pieces of s between the occurrences of sep
RECURSIVE SplitOn(_, _)
SplitOn(s, sep) ==
    IF \A i \in 1..Len(s) : s[i] # sep THEN <<s>>
    ELSE LET i == CHOOSE k \in 1..Len(s) :
                      s[k] = sep /\ \A m \in 1..(k - 1) : s[m] # sep
         IN  <<SubSeq(s, 1, i - 1)>> \o SplitOn(SubSeq(s, i + 1, Len(s)), sep)

\* the rows of a text without quotes and carriage returns, read off its
\* lines and commas
PlainRows(text) ==
    LET pieces == SplitOn(text, "\n")
        lines == IF pieces[Len(pieces)] = <<>>
                 THEN SubSeq(pieces, 1, Len(pieces) - 1) ELSE pieces
    IN  [i \in 1..Len(lines) |-> IF lines[i] = <<>> THEN <<>> ELSE SplitOn(lines[i], ",")]

IsPlain(text) == \A i \in 1..Len(text) : text[i] \notin {"\"", "\r"}

\* record rec is made of the header and the row: every header name is a key,
\* and the last column of that name gives its value (the cell, or None when
\* the row is too short)
RecordOf(rec, header, row) ==
    \A i \in 1..Len(header) :
        /\ Some(header[i]) \in DOMAIN rec
        /\ (\A k \in (i + 1)..Len(header) : header[k] # header[i]) =>
              rec[Some(header[i])] =
                  (IF i <= Len(row) THEN CellStr(row[i]) ELSE CellNone)

\* C9 (as the claim states it): the format alone selects the representation;
\* raw is the text unchanged, rows are all the rows with the header first,
\* and records are one record per row after the header, so that the rows
\* without the first are as many as the records.
C9_OneRecordPerRow ==
    Decoded =>
        LET rows == csv_reader(Payload).rows
        IN  /\ cur.args.format_type = "csv" => cur.ret = RetText(Payload)
            /\ cur.args.format_type = "reader" => cur.ret = RetRows(rows)
            /\ cur.args.format_type = "dict" =>
                  /\ cur.ret.t = "records"
                  /\ Len(cur.ret.v) = (IF rows = <<>> THEN 0 ELSE Len(rows) - 1)

\* C9 (amended): the format alone selects the representation; raw is the
\* text unchanged; rows are all the rows, header first and empty lines as
\* empty rows; records are one record per non-empty row after the first, in
\* row order, with the first row as header and the last of several equal
\* header names deciding the value.  The rows without the first and without
\* the empty ones are as many as the records, in the same order.
C9_OneRecordPerNonEmptyRow ==
    Decoded =>
        LET rows == csv_reader(Payload).rows
            body == NonEmptyFrom(rows, 2)
        IN  /\ cur.args.format_type = "csv" => cur.ret = RetText(Payload)
            /\ cur.args.format_type = "reader" =>
                  /\ cur.ret = RetRows(rows)
                  /\ IsPlain(Payload) => cur.ret.v = PlainRows(Payload)
            /\ cur.args.format_type = "dict" =>
                  /\ cur.ret.t = "records"
                  /\ Len(cur.ret.v) = Len(body)
                  /\ \A k \in 1..Len(body) : RecordOf(cur.ret.v[k], rows[1], body[k])

\* records have been made of a payload with an empty line in it and with the
\* same header name twice
C9_Witness ==
    /\ Decoded
    /\ cur.args.format_type = "dict"
    /\ Len(cur.ret.v) = 1
    /\ LET rows == csv_reader(Payload).rows
       IN  /\ Len(rows) = 3
           /\ rows[2] = <<>>
           /\ Len(rows[1]) = 2
           /\ rows[1][1] = rows[1][2]

ClientOps ==
    {"create_job_query", "create_job", "get_job_query_info", "get_job_info",
     "upload_job_data", "uploaded_job"} \cup ResultGetters

\* the method and the path of the wire table for the call cur
WireMethod ==
    CASE cur.op \in {"create_job_query", "create_job"} -> "POST"
      [] cur.op = "upload_job_data" -> "PUT"
      [] cur.op = "uploaded_job" -> "PATCH"
      [] OTHER -> "GET"

WirePath ==
    CASE cur.op = "create_job_query" -> <<"query">>
      [] cur.op = "create_job" -> <<"ingest">>
      [] cur.op = "get_job_query_info" -> <<"query", cur.args.job_id>>
      [] cur.op = "get_job_query_results" -> <<"query", cur.args.job_id, "results">>
      [] cur.op = "upload_job_data" -> <<"ingest", cur.args.job_id, "batches">>
      [] cur.op = "uploaded_job" -> <<"ingest", cur.args.job_id>>
      [] cur.op = "get_job_info" -> <<"ingest", cur.args.job_id>>
      [] cur.op = "get_ingest_successful_results" ->
            <<"ingest", cur.args.job_id, "successfulResults">>
      [] cur.op = "get_ingest_failed_results" ->
            <<"ingest", cur.args.job_id, "failedResults">>
      [] cur.op = "get_ingest_unprocessed_records" ->
            <<"ingest", cur.args.job_id, "unprocessedrecords">>

QueryOps == {"create_job_query", "get_job_query_info", "get_job_query_results",
             "poll_job_query"}

\* the requests of the call cur are one, the one of the wire table
OneWireRequest ==
    /\ Len(cur.reqs) = 1
    /\ cur.reqs[1].method = WireMethod
    /\ cur.reqs[1].endpoint = WirePath
    /\ cur.reqs[1].base = sfBulk.bulk2_url
    /\ cur.op = "uploaded_job" => cur.reqs[1].json = [state |-> "UploadComplete"]

\* every request of the call cur is under the path prefix of its family
OwnPrefix ==
    \A i \in 1..Len(cur.reqs) :
        cur.reqs[i].endpoint[1] = (IF cur.op \in QueryOps THEN "query" ELSE "ingest")

\* C10 (as the claim states it): every call of a client operation other than
\* the waits sends exactly one request, with the method and the path of the
\* wire table, and no operation sends a request under the other family's prefix.
C10_AlwaysOneWireRequest ==
    /\ (cur.op \in ClientOps /\ Done) => OneWireRequest
    /\ (cur.op \in ClientOps \cup {"poll_job_query", "poll_job"}) => OwnPrefix

\* C10 (amended): every call of a client operation other than the waits that
\* its own argument check does not refuse (ValueError) sends exactly one
\* request, with the method and the path of the wire table; a refused call
\* sends none; no operation sends a request under the other family's prefix.
C10_OneWireRequestUnlessRefused ==
    /\ (cur.op \in ClientOps /\ Done) =>
          IF cur.err = "ValueError" THEN cur.reqs = <<>> ELSE OneWireRequest
    /\ (cur.op \in ClientOps \cup {"poll_job_query", "poll_job"}) => OwnPrefix

\* the unprocessed records of a finished ingest job have been fetched
C10_Witness ==
    /\ cur.op = "get_ingest_unprocessed_records"
    /\ cur.outcome = "returned"
    /\ cur.reqs[1].endpoint[3] = "unprocessedrecords"

\* the durations of the suspends of the wait cur
SuspendDurations ==
    {cur.trace[i].d : i \in {k \in 1..Len(cur.trace) : cur.trace[k].k = "suspend"}}

\* C11: every suspend of a wait lasts the interval passed to that wait when
\* one is passed (0 included), and the interval the client was constructed
\* with (5 when none was given) when it is omitted; all suspends of a wait
\* last the same; no step, a wait with its own interval included, changes the
\* client's default interval.
C11_SuspendLastsInterval ==
    [][/\ sfBulk'._interval = sfBulk._interval
       /\ \E a \in IntervalArgs :
             sfBulk._interval = (IF a = None THEN 5 ELSE a[1])
       /\ (cur'.op \in {"poll_job_query", "poll_job"}) =>
             /\ Cardinality(SuspendDurations') <= 1
             /\ \A d \in SuspendDurations' :
                   d = (IF cur'.args.interval = None THEN sfBulk._interval
                        ELSE cur'.args.interval[1])]_vars

\* a wait called with the interval 0 on a client whose default is 5 has
\* suspended twice, each time for 0
C11_Witness ==
    /\ InWait
    /\ cur.args.interval = Some(0)
    /\ sfBulk._interval = 5
    /\ SuspendCount = 2
    /\ SuspendDurations = {0}

\* a wait is running, it has polls left in the model, and the server has the
\* job in a terminal state
TerminalOnServer ==
    /\ InWait
    /\ cur.outcome = "running"
    /\ StatusCount < MaxPolls
    /\ server[cur.args.job_id].state \in TerminalNames

\* a wait ends only at a status call, one that failed or that reported a
\* terminal state or no state; it never ends by itself, at a sleep or after
\* some number of polls; while it runs its next step is a status call or the
\* end of a sleep
WaitEndsOnlyAtStatus ==
    InWait =>
        LET n == Len(cur.trace)
        IN  /\ cur.outcome = "returned" => (n >= 1 /\ SawTerminal(n))
            /\ Done => (n >= 1 /\ cur.trace[n].k = "status" /\ ~SawOther(n))
            /\ (\A i \in 1..n : cur.trace[i].k = "status" => SawOther(i)) =>
                  /\ cur.outcome = "running"
                  /\ pc \in {"get_info", "sleep"}

\* C12: a wait has no retry bound and no deadline.  It returns only when a
\* status call has reported a terminal state; as long as every status call
\* reports a state that is not terminal (an ingest job left Open, say) it
\* goes on polling, up to the number of polls the model follows; and once
\* the server has the job in a terminal state the wait ends.
C12_WaitEndsWithServer ==
    /\ []WaitEndsOnlyAtStatus
    /\ (TerminalOnServer ~> Done)

\* a wait on the ingest job whose upload was never completed has polled as
\* often as the model follows it, has seen Open each time, and is running
C12_Witness ==
    /\ cur.op = "poll_job"
    /\ cur.outcome = "running"
    /\ StatusCount = MaxPolls
    /\ \A i \in 1..Len(cur.trace) :
          cur.trace[i].k = "status" =>
              (Reported(i) /\ cur.trace[i].resp.json["state"] = "Open")

CreateOps == {"create_job_query", "create_job"}

\* the step is a call of create_job_query or create_job
CreateStep == cur'.op \in CreateOps /\ (cur' # cur \/ handles' # handles)

\* C13: a creation call whose response is a success without an id raises
\* (KeyError) and returns no handle; a creation call returns a handle only on
\* a successful response with an id, and that handle has this id; handles
\* come into being only by construction, and no step changes the id of a
\* handle there is.
C13_HandleHasResponseId ==
    [][/\ \A h \in 1..Len(handles) :
             Len(handles') >= h /\ handles'[h].id = handles[h].id
       /\ handles' # handles =>
             /\ cur'.op \in CreateOps \cup {"SfBulkJobQuery", "SfBulkJob"}
             /\ Len(handles') = Len(handles) + 1
             /\ "id" \in DOMAIN handles'[Len(handles')]._info
             /\ handles'[Len(handles')].id = handles'[Len(handles')]._info["id"]
       /\ CreateStep =>
             LET resp == IF cur'.trace = <<>> THEN HttpError ELSE cur'.trace[1].resp
             IN  IF resp.ok /\ "id" \in DOMAIN resp.json
                 THEN /\ cur'.outcome = "returned"
                      /\ cur'.ret = RetHandle(Len(handles'))
                      /\ Len(handles') = Len(handles) + 1
                      /\ handles'[Len(handles')].id = resp.json["id"]
                 ELSE /\ cur'.outcome = "raised"
                      /\ cur'.ret = RetNone
                      /\ handles' = handles
                      /\ resp.ok => cur'.err = "KeyError"]_vars

\* the server has answered a creation with a success that has no id, and the
\* call has raised
C13_Witness ==
    /\ cur.op \in CreateOps
    /\ cur.trace # <<>>
    /\ cur.trace[1].resp.ok
    /\ "id" \notin DOMAIN cur.trace[1].resp.json
    /\ cur.outcome = "raised"

PredicateOps == {"SfBulkJob.is_successful", "SfBulkJob.is_failed", "SfBulkJob.is_aborted"}

\* cached statuses: without a state, with each state the server knows, with
\* a state it does not know
InfoSamples ==
    <<[id |-> "j1"],
      [id |-> "j1", state |-> "Open"],
      [id |-> "j1", state |-> "UploadComplete"],
      [id |-> "j1", state |-> "InProgress"],
      [id |-> "j1", state |-> "JobComplete"],
      [id |-> "j1", state |-> "Failed"],
      [id |-> "j1", state |-> "Aborted"],
      [id |-> "j1", state |-> "Paused"]>>

\* the three predicates on the cached status info: each says whether the
\* state is its own, so at most one is true, and none is while the state is
\* missing or not terminal
OneVerdict(info) ==
    LET has == "state" \in DOMAIN info
    IN  /\ is_successful(info) <=> (has /\ info["state"] = "JobComplete")
        /\ is_failed(info) <=> (has /\ info["state"] = "Failed")
        /\ is_aborted(info) <=> (has /\ info["state"] = "Aborted")
        /\ ~(is_successful(info) /\ is_failed(info))
        /\ ~(is_successful(info) /\ is_aborted(info))
        /\ ~(is_failed(info) /\ is_aborted(info))
        /\ (~has \/ info["state"] \notin TerminalNames) =>
              (~is_successful(info) /\ ~is_failed(info) /\ ~is_aborted(info))

\* C15: is_successful, is_failed and is_aborted of an ingest handle depend on
\* the cached status alone: a call sends no request, leaves the cache, the
\* server and the client as they were, and returns whether the cached state
\* is JobComplete, Failed, Aborted; for every handle at most one of the
\* three is true, and none while the cached state is not terminal or missing.
C15_PredicatesArePure ==
    [][/\ \A h \in 1..Len(handles) : OneVerdict(handles[h]._info)
       /\ (cur' # cur /\ cur'.op \in PredicateOps) =>
             LET info == handles[cur'.args.h]._info
                 own == CASE cur'.op = "SfBulkJob.is_successful" -> "JobComplete"
                          [] cur'.op = "SfBulkJob.is_failed" -> "Failed"
                          [] cur'.op = "SfBulkJob.is_aborted" -> "Aborted"
             IN  /\ cur'.outcome = "returned"
                 /\ cur'.reqs = <<>>
                 /\ cur'.ret = RetBool("state" \in DOMAIN info /\ info["state"] = own)
                 /\ handles' = handles
                 /\ server' = server
                 /\ sfBulk' = sfBulk
                 /\ \A i \in 1..Len(InfoSamples) : OneVerdict(InfoSamples[i])]_vars

\* is_aborted has answered true on a handle whose cached state is Aborted
C15_Witness ==
    /\ cur.op = "SfBulkJob.is_aborted"
    /\ cur.ret = RetBool(TRUE)
    /\ handles[cur.args.h]._info["state"] = "Aborted"

RefreshOps == {"SfBulkJobQuery.get_info", "SfBulkJobQuery.wait",
               "SfBulkJob.get_info", "SfBulkJob.wait"}

\* the dict the handle made in this step was built from
BuiltFrom ==
    IF cur'.op \in CreateOps THEN cur'.trace[1].resp.json ELSE cur'.args.job_info

\* C16: the cached status of a handle is as a whole the dict the handle was
\* built from (the creation response) until a get_info or a wait on that
\* handle returns, and then the snapshot that call returned; it is a status
\* of the handle's own job; a get_info or a wait that raises leaves every
\* cache as it was.  (No get_info or wait of a handle returns in this code,
\* see C7: the cache stays what the handle was built from.)
C16_CacheReplacedWholesale ==
    [][/\ \A h \in 1..Len(handles) :
             /\ Len(handles') >= h
             /\ "id" \in DOMAIN handles[h]._info
             /\ handles[h]._info["id"] = handles[h].id
             /\ handles'[h]._info # handles[h]._info =>
                   /\ cur'.op \in RefreshOps
                   /\ cur'.args.h = h
                   /\ cur'.outcome = "returned"
                   /\ cur'.ret = RetDict(handles'[h]._info)
       /\ Len(handles') > Len(handles) =>
             /\ Len(handles') = Len(handles) + 1
             /\ handles'[Len(handles')]._info = BuiltFrom
       /\ (cur' # cur /\ cur'.op \in RefreshOps /\ cur'.outcome = "raised") =>
             handles' = handles]_vars

\* a get_info or a wait on a handle has raised, and the handle's cache is the
\* creation response still, the job having moved on at the server
C16_Witness ==
    /\ cur.op \in RefreshOps
    /\ cur.outcome = "raised"
    /\ handles[cur.args.h]._info = [id |-> handles[cur.args.h].id, state |-> "Open"]
    /\ server[handles[cur.args.h].id].state = "Aborted"

\* C17: no request changes the headers of the client: they are at every
\* time the ones it was constructed with; the request of upload_job_data
\* carries them with Content-Type replaced by text/csv, and every request of
\* every other call, before or after an upload, carries them as they are.
C17_SharedHeadersUntouched ==
    [][/\ sfBulk.headers = SfHeaders
       /\ sfBulk'.headers = sfBulk.headers
       /\ \A i \in 1..Len(cur'.reqs) :
             cur'.reqs[i].headers =
                 (IF cur'.op = "upload_job_data"
                  THEN ("Content-Type" :> "text/csv") @@ SfHeaders
                  ELSE SfHeaders)]_vars

\* an upload has been accepted; its request said text/csv, and the client's
\* headers say application/json
C17_Witness ==
    /\ cur.op = "upload_job_data"
    /\ cur.outcome = "returned"
    /\ cur.reqs[1].headers["Content-Type"] = "text/csv"
    /\ cur.reqs[1].headers["Authorization"] = sfBulk.headers["Authorization"]
    /\ sfBulk.headers["Content-Type"] = "application/json"

HandleOps == DelegatingOps \cup PredicateOps \cup {"SfBulkJob.has_failed_records"}

\* C18: with several handles on one client, whatever the order of the calls
\* on them: a handle (its id, its cached status) is changed by no step but a
\* call on that very handle; the cached status of each handle is a status of
\* its own job; and no step changes the client (base URL, headers, default
\* interval, timeout).
C18_HandlesIndependent ==
    [][/\ sfBulk' = sfBulk
       /\ \A g \in 1..Len(handles) :
             /\ "id" \in DOMAIN handles[g]._info
             /\ handles[g]._info["id"] = handles[g].id
             /\ Len(handles') >= g
             /\ handles'[g].id = handles[g].id
             /\ handles'[g] # handles[g] =>
                   (cur' # cur /\ cur'.op \in HandleOps /\ cur'.args.h = g)]_vars

\* there are two handles of different jobs, one of a job that the server has
\* finished; a call on the second has just ended, and the first is as it was
\* built
C18_Witness ==
    /\ Len(handles) = 2
    /\ handles[1].id # handles[2].id
    /\ cur.op \in HandleOps
    /\ Done
    /\ cur.args.h = 2
    /\ handles[1]._info = [id |-> handles[1].id, state |-> "Open"]
    /\ server[handles[1].id].state = "JobComplete"

\* C19 (what the claim rests on): a wait and a get_info on an ingest handle
\* end, unless the transport fails, by returning the snapshot they got (a
\* terminal one for the wait) after writing it in the handle's cache, so
\* that two unsynchronised callers can overwrite each other's snapshot.
C19_WaitAndRefreshWriteCache ==
    (cur.op \in {"SfBulkJob.wait", "SfBulkJob.get_info"} /\ Done) =>
        \/ cur.err = "HTTPError"
        \/ /\ cur.outcome = "returned"
           /\ cur.ret.t = "dict"
           /\ handles[cur.args.h]._info = cur.ret.v
           /\ cur.op = "SfBulkJob.wait" =>
                 ("state" \in DOMAIN cur.ret.v /\ cur.ret.v["state"] \in TerminalNames)

\* the responses of the status calls of the wait cur, in order
StatusResponses ==
    LET calls == SelectSeq(cur.trace, LAMBDA e : e.k = "status")
    IN  [i \in 1..Len(calls) |-> calls[i].resp]

\* what a poll loop does when its status calls are answered by rs, one after
\* the other, and it sleeps for d: the events after acc, and how it stands
\* when rs is used up
RECURSIVE LoopOn(_, _, _)
LoopOn(rs, d, acc) ==
    IF rs = <<>>
    THEN [trace |-> acc, outcome |-> "running", err |-> "", ret |-> RetNone]
    ELSE LET r == Head(rs)
             seen == Append(acc, StatusEv(r))
         IN  IF ~r.ok
             THEN [trace |-> seen, outcome |-> "raised", err |-> "HTTPError", ret |-> RetNone]
             ELSE IF "state" \notin DOMAIN r.json
             THEN [trace |-> seen, outcome |-> "raised", err |-> "KeyError", ret |-> RetNone]
             ELSE IF r.json["state"] \in {"Aborted", "JobComplete", "Failed"}
             THEN [trace |-> seen, outcome |-> "returned", err |-> "", ret |-> RetDict(r.json)]
             ELSE LoopOn(Tail(rs), d, Append(seen, SuspendEv(d)))

\* C20: poll_job_query and poll_job do the same but for the path prefix: what
\* either does is one and the same function of the responses to its status
\* calls (failures included) and of the interval: the same status calls and
\* suspends in the same order, the same terminal set, the same snapshot
\* returned or the same error raised; the requests are GET query/{id} for
\* the one and GET ingest/{id} for the other.
C20_PollLoopsEquivalent ==
    InWait =>
        LET d == IF cur.args.interval = None THEN sfBulk._interval
                 ELSE cur.args.interval[1]
            e == LoopOn(StatusResponses, d, <<>>)
            prefix == IF cur.op = "poll_job_query" THEN "query" ELSE "ingest"
        IN  /\ cur.outcome = e.outcome
            /\ cur.err = e.err
            /\ cur.ret = e.ret
            /\ IF pc = "sleep"
               THEN e.trace = Append(cur.trace, SuspendEv(d))
               ELSE e.trace = cur.trace
            /\ Len(cur.reqs) = Len(StatusResponses)
            /\ \A i \in 1..Len(cur.reqs) :
                  /\ cur.reqs[i].method = "GET"
                  /\ cur.reqs[i].endpoint = <<prefix, cur.args.job_id>>

\* a wait on a query job, called with the interval 0, has raised KeyError at
\* its second status call, whose answer had no state
C20_Witness ==
    /\ cur.op = "poll_job_query"
    /\ cur.args.interval = Some(0)
    /\ cur.outcome = "raised"
    /\ cur.err = "KeyError"
    /\ StatusCount = 2

\* the methods of the handles that refresh nothing
FrameOps ==
    {"SfBulkJobQuery.get_results", "SfBulkJob.upload_data", "SfBulkJob.complete_upload",
     "SfBulkJob.get_successful_results", "SfBulkJob.get_failed_results",
     "SfBulkJob.get_unprocessed_records"}

\* every method of the handle h can be called
AllEnabled(h) ==
    IF handles[h].cls = "SfBulkJobQuery"
    THEN /\ ENABLED SfBulkJobQuery_get_info(h)
         /\ ENABLED SfBulkJobQuery_wait(h, None)
         /\ ENABLED SfBulkJobQuery_get_results(h, "dict")
    ELSE /\ \A d \in CsvData : ENABLED SfBulkJob_upload_data(h, d)
         /\ ENABLED SfBulkJob_complete_upload(h)
         /\ ENABLED SfBulkJob_get_info(h)
         /\ ENABLED SfBulkJob_wait(h, None)
         /\ ENABLED SfBulkJob_get_successful_results(h, "dict")
         /\ ENABLED SfBulkJob_get_failed_results(h, "dict")
         /\ ENABLED SfBulkJob_get_unprocessed_records(h, "dict")
         /\ ENABLED SfBulkJob_is_successful(h)
         /\ ENABLED SfBulkJob_is_failed(h)
         /\ ENABLED SfBulkJob_is_aborted(h)
         /\ ENABLED SfBulkJob_has_failed_records(h)

\* C21: upload_data, complete_upload and the result getters of a handle leave
\* the id and the cached status of every handle as they were, however they
\* end; the cache of a handle changes at a get_info or a wait of that handle
\* and at no other step; the handle enforces no order: whenever the caller is
\* free every method of every handle can be called, whatever the cached
\* status.  (In this code these methods end by raising, see C7; the cache
\* after complete_upload is the one the handle was built with.)
C21_OnlyRefreshChangesCache ==
    /\ [](pc = "idle" => \A h \in 1..Len(handles) : AllEnabled(h))
    /\ [][/\ (cur' # cur /\ cur'.op \in FrameOps) => handles' = handles
          /\ \A h \in 1..Len(handles) :
                /\ Len(handles') >= h
                /\ handles'[h].id = handles[h].id
                /\ handles'[h]._info # handles[h]._info =>
                      (cur'.op \in RefreshOps /\ cur'.args.h = h)]_vars

\* complete_upload has been called on a handle built from a terminal status,
\* and on ending has left the cache as it was
C21_Witness ==
    /\ cur.op = "SfBulkJob.complete_upload"
    /\ Done
    /\ handles[cur.args.h]._info["state"] = "JobComplete"

\* C22: a status response that is a success and has no state is not taken
\* for a state that is not terminal: the wait raises (KeyError) at that
\* poll, which is its last event, with no suspend and no status call after
\* it; is_successful, is_failed and is_aborted on a handle whose cached
\* status has no state return false and do not raise.
C22_MissingStateEndsWait ==
    /\ InWait =>
          \A i \in 1..Len(cur.trace) :
              (Answered(i) /\ "state" \notin DOMAIN cur.trace[i].resp.json) =>
                  /\ i = Len(cur.trace)
                  /\ pc = "idle"
                  /\ cur.outcome = "raised"
                  /\ cur.err = "KeyError"
                  /\ Len(cur.reqs) = StatusCount
    /\ (cur.op \in PredicateOps /\ Done
           /\ "state" \notin DOMAIN handles[cur.args.h]._info) =>
          /\ cur.outcome = "returned"
          /\ cur.ret = RetBool(FALSE)

\* is_successful has answered false on a handle made of a status without a
\* state, of a job the server has completed
C22_Witness ==
    /\ cur.op = "SfBulkJob.is_successful"
    /\ cur.ret = RetBool(FALSE)
    /\ "state" \notin DOMAIN handles[cur.args.h]._info
    /\ server[handles[cur.args.h].id].state = "JobComplete"

====
